---- MODULE Spec2Model ----
(***************************************************************************)
(* Model of the Elephant citation tracker: the SQLite store of             *)
(* src/src/db/database.py (papers, citations, tracked_papers, sync_status, *)
(* recommendations, alerts) with every method of Database, the fetch loop  *)
(* and the alert command of src/src/core/commands.py, the                  *)
(* configuration file of src/src/core/config.py and the recommendation     *)
(* engine of src/src/analytics/recommendations.py.                         *)
(*                                                                         *)
(* Conventions.  SQL NULL / Python None is NULL for text values and NullId *)
(* for integer values.  Row ids are the AUTOINCREMENT rowids SQLite hands  *)
(* out: one more than the table's sqlite_sequence entry, which an INSERT   *)
(* OR IGNORE advances also when the row is ignored.  citations.timestamp   *)
(* is kept, in seconds on the clock `now`, because get_citation_history    *)
(* reads it; the other timestamp columns (first_seen, last_updated,        *)
(* last_sync, added_date, generated_date, created_date) are not part of    *)
(* the state: no operation reads them.  Foreign keys are declared but      *)
(* SQLite does not enforce them (the code never issues PRAGMA foreign_keys *)
(* = ON).                                                                  *)
(*                                                                         *)
(* Specifications: Spec (one Database instance on the store, every method, *)
(* seconds passing between calls), BurstSpec (the same calls within one    *)
(* second), LedgerSpec (the ledger and its aggregates), RaceSpec (two      *)
(* instances inside add_paper), FetchSpec (fetch_command), RecSpec (the    *)
(* recommendation engine over a store being filled), CollabSpec (the       *)
(* collaboration rule), HistorySpec (the writing operations alone),        *)
(* InsightSpec (get_actionable_insights), IngestSpec (observations stored  *)
(* for the ids add_paper returns), AlertSpec (`elephant alert` on the      *)
(* configuration file).                                                    *)
(***************************************************************************)
EXTENDS Integers, Sequences, FiniteSets, TLC

VARIABLES
    papers,            \* table papers, in rowid order
    papers_seq,        \* sqlite_sequence entry of papers (AUTOINCREMENT)
    citations,         \* table citations, in rowid order
    tracked_papers,    \* table tracked_papers, in rowid order
    sync_status,       \* table sync_status, in rowid order
    sync_seq,          \* sqlite_sequence entry of sync_status (AUTOINCREMENT)
    recommendations,   \* table recommendations, in rowid order
    alerts,            \* table alerts, in rowid order
    now,               \* CURRENT_TIMESTAMP, in seconds since the store was created
    conn,              \* conn[d]: Database instance d holds an open connection
    last_insert_rowid, \* last_insert_rowid[d]: sqlite3_last_insert_rowid of d's connection
    ret,               \* the call the last step made and what it returned
    db_lock,           \* the instance holding SQLite's write lock, 0 when free
    pc,                \* pc[d]: position of writer d inside a stepwise add_paper
    call_args,         \* call_args[d]: the arguments of writer d's add_paper
    call_ret,          \* call_ret[d]: what writer d's add_paper returned
    config,            \* ctx.obj['config']: loaded or None, and its platforms
    config_file,       \* ~/.elephant/config.yaml as parsed YAML, NoFile when absent
    environ,           \* os.environ after load_dotenv(): the API-key variables
    fetch_pc,          \* position inside fetch_command
    fetch_args,        \* the arguments of fetch_command
    platforms_to_fetch,\* fetch_command's list of selected platforms
    fetch_idx,         \* number of loop iterations of fetch_command completed
    fetch_calls,       \* the platforms fetch_platform was invoked for, in order
    fetch_log          \* per invocation, "ok" or "error" as printed

storeVars == <<papers, papers_seq, citations, tracked_papers, sync_status, sync_seq,
               recommendations, alerts>>
connVars  == <<conn, last_insert_rowid>>
raceVars  == <<db_lock, pc, call_args, call_ret>>
fetchVars == <<fetch_pc, fetch_args, platforms_to_fetch, fetch_idx, fetch_calls, fetch_log>>
fileVars  == <<config_file, environ>>
vars == <<storeVars, connVars, ret, raceVars, config, fileVars, now, fetchVars>>

(***************************************************************************)
(* Values                                                                  *)
(***************************************************************************)
NULL   == "NULL"
NullId == 0 - 1

\* The Database instances (each owns at most one connection to the same file).
DBs == {1, 2}

RECURSIVE SumSeq(_)
SumSeq(s) == IF s = <<>> THEN 0 ELSE Head(s) + SumSeq(Tail(s))

SetMax(S) == CHOOSE x \in S : \A y \in S : y <= x

Range(s) == {s[i] : i \in 1..Len(s)}

\* Python truthiness of an Optional[str] argument: None and '' are falsy.
truthy(s) == s # NULL /\ s # ""

(***************************************************************************)
(* Database.connect / Database.close                                       *)
(***************************************************************************)
\* connect(): opens a connection only when none is held; a new connection
\* starts with sqlite3_last_insert_rowid() = 0.
connect_conn(d) == [conn EXCEPT ![d] = TRUE]
connect_last(d) == IF conn[d] THEN last_insert_rowid
                   ELSE [last_insert_rowid EXCEPT ![d] = 0]

\* The rowid the connection of d reports after connect().
rowid_after_connect(d) == connect_last(d)[d]

close(d) ==
    /\ conn' = [conn EXCEPT ![d] = FALSE]
    /\ ret' = [call |-> "close", db |-> d]
    /\ UNCHANGED <<storeVars, last_insert_rowid>>

(***************************************************************************)
(* Database.add_paper                                                      *)
(***************************************************************************)
\* authors_json = json.dumps(authors) if authors else None
\* The JSON text of a list is kept as its token list; NULL is its own case.
json_dumps(list) == [null |-> FALSE, text |-> list]
json_null == [null |-> TRUE, text |-> <<>>]
authors_json(authors) == IF authors # <<>> THEN json_dumps(authors) ELSE json_null

\* UNIQUE(doi, arxiv_id): SQLite treats NULLs as distinct, so the constraint
\* conflicts only when both columns are non-NULL and both equal a row's.
unique_conflict(ps, doi, arxiv_id) ==
    /\ doi # NULL
    /\ arxiv_id # NULL
    /\ \E i \in 1..Len(ps) : ps[i].doi = doi /\ ps[i].arxiv_id = arxiv_id

paper_row(id, title, doi, arxiv_id, year, authors) ==
    [id |-> id, title |-> title, doi |-> doi, arxiv_id |-> arxiv_id,
     year |-> year, authors |-> authors_json(authors)]

\* id INTEGER PRIMARY KEY AUTOINCREMENT: the rowid the INSERT picks is one
\* more than the sqlite_sequence entry of papers (no row is ever deleted, so
\* the entry is never below the largest rowid).
next_paper_id(seq) == seq + 1

\* The sqlite_sequence entry after the INSERT OR IGNORE: SQLite picks the
\* rowid and records it before it finds the UNIQUE conflict, so an ignored
\* insert uses up a number too.
paper_seq_after(seq) == next_paper_id(seq)

\* INSERT OR IGNORE INTO papers: the table after the statement.
insert_or_ignore_paper(ps, seq, title, doi, arxiv_id, year, authors) ==
    IF unique_conflict(ps, doi, arxiv_id) THEN ps
    ELSE Append(ps, paper_row(next_paper_id(seq), title, doi, arxiv_id, year, authors))

\* cursor.lastrowid after the INSERT OR IGNORE: sqlite3_last_insert_rowid of
\* the connection, which an ignored insert leaves at the rowid of the last
\* successful insert on that connection, into whatever table.
insert_lastrowid(ps, seq, doi, arxiv_id, before) ==
    IF unique_conflict(ps, doi, arxiv_id) THEN before ELSE next_paper_id(seq)

\* SQLite's BINARY collation on the identifier strings in use, NULL first.
TextOrder == <<"a1", "a2", "d1", "d2">>
text_rank(s) == IF s = NULL THEN 0 ELSE CHOOSE i \in 1..Len(TextOrder) : TextOrder[i] = s

\* Order of sqlite_autoindex_papers_1, the index behind UNIQUE(doi, arxiv_id):
\* by doi, then arxiv_id, then rowid.
index_before(r, q) ==
    \/ text_rank(r.doi) < text_rank(q.doi)
    \/ /\ r.doi = q.doi
       /\ \/ text_rank(r.arxiv_id) < text_rank(q.arxiv_id)
          \/ (r.arxiv_id = q.arxiv_id /\ r.id <= q.id)

\* fetchone() of a SELECT id that SQLite answers from that index: the id of
\* the first hit in index order, None when there is no hit.
first_in_index(ps, hits) ==
    IF hits = {} THEN NullId
    ELSE ps[CHOOSE i \in hits : \A j \in hits : index_before(ps[i], ps[j])].id

\* fetchone() of a SELECT id answered by a table scan: first hit in rowid order.
first_in_table(ps, hits) ==
    IF hits = {} THEN NullId
    ELSE ps[CHOOSE i \in hits : \A j \in hits : i <= j].id

\* SELECT id FROM papers WHERE doi = ? OR arxiv_id = ?  (fetchone); a NULL
\* parameter matches nothing.
select_id_by_doi_or_arxiv(ps, doi, arxiv_id) ==
    first_in_index(ps, {i \in 1..Len(ps) :
                           \/ (doi # NULL /\ ps[i].doi = doi)
                           \/ (arxiv_id # NULL /\ ps[i].arxiv_id = arxiv_id)})

\* The value add_paper returns.
add_paper_result(ps_after, doi, arxiv_id, lastrowid) ==
    IF lastrowid = 0 THEN select_id_by_doi_or_arxiv(ps_after, doi, arxiv_id)
    ELSE lastrowid

add_paper(d, title, doi, arxiv_id, year, authors) ==
    LET before    == rowid_after_connect(d)
        lastrowid == insert_lastrowid(papers, papers_seq, doi, arxiv_id, before)
        after     == insert_or_ignore_paper(papers, papers_seq, title, doi, arxiv_id,
                                            year, authors)
    IN /\ papers' = after
       /\ papers_seq' = paper_seq_after(papers_seq)
       /\ conn' = connect_conn(d)
       /\ last_insert_rowid' = [last_insert_rowid EXCEPT ![d] = lastrowid]
       /\ ret' = [call |-> "add_paper", db |-> d, title |-> title, doi |-> doi,
                  arxiv_id |-> arxiv_id,
                  result |-> add_paper_result(after, doi, arxiv_id, lastrowid)]
       /\ UNCHANGED <<citations, tracked_papers, sync_status, sync_seq,
                      recommendations, alerts>>

(***************************************************************************)
(* Database.add_citation_record                                            *)
(***************************************************************************)
\* timestamp is the column's DEFAULT CURRENT_TIMESTAMP.
citation_row(id, paper_id, platform, citation_count, timestamp) ==
    [id |-> id, paper_id |-> paper_id, platform |-> platform,
     citation_count |-> citation_count, timestamp |-> timestamp]

\* A ledger that keeps one row per (paper, platform): the new observation
\* replaces the earlier one instead of being appended.
insert_citation_replacing(cs, paper_id, platform, citation_count, timestamp) ==
    LET kept == SelectSeq(cs, LAMBDA r : ~(r.paper_id = paper_id /\ r.platform = platform))
    IN Append(kept, citation_row(Len(cs) + 1, paper_id, platform, citation_count, timestamp))

\* INSERT INTO citations; the UPDATE of papers.last_updated touches a
\* timestamp only.
insert_citation(cs, paper_id, platform, citation_count, timestamp) ==
    Append(cs, citation_row(Len(cs) + 1, paper_id, platform, citation_count, timestamp))

add_citation_record(d, paper_id, platform, citation_count) ==
    /\ citations' = insert_citation(citations, paper_id, platform, citation_count, now)
    /\ conn' = connect_conn(d)
    /\ last_insert_rowid' = [last_insert_rowid EXCEPT ![d] = Len(citations) + 1]
    /\ ret' = [call |-> "add_citation_record", db |-> d, paper_id |-> paper_id,
               platform |-> platform, citation_count |-> citation_count]
    /\ UNCHANGED <<papers, papers_seq, tracked_papers, sync_status, sync_seq,
                   recommendations, alerts>>

(***************************************************************************)
(* Database.add_tracked_paper                                              *)
(***************************************************************************)
\* Titles are sequences of characters, so that LIKE '%title%' is computed.
\* (LIKE ignores ASCII case; the titles in use are lower case.)
NoTitle == <<>>

title_like(title, pattern) ==
    \E i \in 0..(Len(title) - Len(pattern)) :
        SubSeq(title, i + 1, i + Len(pattern)) = pattern

\* The three lookups of add_tracked_paper, by precedence: DOI, arXiv ID, title.
find_tracked_target(ps, doi, arxiv_id, title) ==
    IF truthy(doi)
    THEN first_in_index(ps, {i \in 1..Len(ps) : ps[i].doi = doi})
    ELSE IF truthy(arxiv_id)
    THEN first_in_index(ps, {i \in 1..Len(ps) : ps[i].arxiv_id = arxiv_id})
    ELSE first_in_table(ps, {i \in 1..Len(ps) : title_like(ps[i].title, title)})

tracked_row(id, paper_id) == [id |-> id, paper_id |-> paper_id]

\* INSERT OR IGNORE INTO tracked_papers (paper_id): the table has no UNIQUE
\* constraint on paper_id, so nothing is ever ignored.
insert_or_ignore_tracked(ts, paper_id) ==
    Append(ts, tracked_row(Len(ts) + 1, paper_id))

\* The marker row written whether or not the lookup found a paper: without
\* the `if row:` test a row with paper_id NULL is stored.
tracked_after_unchecked(ts, paper_id) == insert_or_ignore_tracked(ts, paper_id)

\* `if row:` ... INSERT ...; otherwise the table is left alone.
tracked_after(ts, paper_id) ==
    IF paper_id # NullId THEN insert_or_ignore_tracked(ts, paper_id) ELSE ts

add_tracked_paper(d, doi, arxiv_id, title) ==
    LET has_id   == truthy(doi) \/ truthy(arxiv_id) \/ title # NoTitle
        paper_id == IF has_id THEN find_tracked_target(papers, doi, arxiv_id, title)
                    ELSE NullId
        found    == paper_id # NullId
    IN /\ tracked_papers' = tracked_after(tracked_papers, paper_id)
       /\ conn' = connect_conn(d)
       /\ last_insert_rowid' =
              IF found THEN [last_insert_rowid EXCEPT ![d] = Len(tracked_papers) + 1]
              ELSE connect_last(d)
       /\ ret' = [call |-> "add_tracked_paper", db |-> d, doi |-> doi,
                  arxiv_id |-> arxiv_id, title |-> title, result |-> paper_id]
       /\ UNCHANGED <<papers, papers_seq, citations, sync_status, sync_seq,
                      recommendations, alerts>>

(***************************************************************************)
(* Database.update_sync_status                                             *)
(***************************************************************************)
sync_row(id, platform, status, error_message) ==
    [id |-> id, platform |-> platform, status |-> status,
     error_message |-> error_message]

\* A plain INSERT: the earlier row of the platform stays.
insert_sync_keeping(ss, seq, platform, status, error_message) ==
    Append(ss, sync_row(seq + 1, platform, status, error_message))

\* INSERT OR REPLACE INTO sync_status: platform is UNIQUE, so the row of the
\* same platform is deleted and the new row gets the next AUTOINCREMENT id.
insert_or_replace_sync(ss, seq, platform, status, error_message) ==
    Append(SelectSeq(ss, LAMBDA r : r.platform # platform),
           sync_row(seq + 1, platform, status, error_message))

update_sync_status(d, platform, status, error_message) ==
    /\ sync_status' = insert_or_replace_sync(sync_status, sync_seq, platform,
                                             status, error_message)
    /\ sync_seq' = sync_seq + 1
    /\ conn' = connect_conn(d)
    /\ last_insert_rowid' = [last_insert_rowid EXCEPT ![d] = sync_seq + 1]
    /\ ret' = [call |-> "update_sync_status", db |-> d, platform |-> platform,
               status |-> status, error_message |-> error_message]
    /\ UNCHANGED <<papers, papers_seq, citations, tracked_papers, recommendations, alerts>>

(***************************************************************************)
(* Database.initialize                                                     *)
(***************************************************************************)
\* CREATE TABLE IF NOT EXISTS on a store whose tables exist: only connects.
initialize(d) ==
    /\ conn' = connect_conn(d)
    /\ last_insert_rowid' = connect_last(d)
    /\ ret' = [call |-> "initialize", db |-> d]
    /\ UNCHANGED storeVars

(***************************************************************************)
(* Read operations                                                         *)
(***************************************************************************)
\* The count of the paper's most recent observation instead of its maximum;
\* NullId is NULL.
latest_citation_count(cs, paper_id) ==
    LET own == SelectSeq(cs, LAMBDA r : r.paper_id = paper_id)
    IN IF own = <<>> THEN NullId ELSE own[Len(own)].citation_count

\* MAX(citation_count) over the citation rows of one paper; NullId is NULL.
max_citation_count(cs, paper_id) ==
    LET counts == {cs[i].citation_count : i \in {j \in 1..Len(cs) : cs[j].paper_id = paper_id}}
    IN IF counts = {} THEN NullId ELSE SetMax(counts)

\* The inner query of get_total_citations:
\*   SELECT paper_id, MAX(citation_count) FROM citations [WHERE platform = ?]
\*   GROUP BY paper_id
\* as the set of its rows.  `if platform:` skips the filter for None and ''.
latest_per_paper(cs, platform) ==
    LET rows == IF truthy(platform)
                THEN SelectSeq(cs, LAMBDA r : r.platform = platform)
                ELSE cs
    IN {[paper_id |-> g, citation_count |-> max_citation_count(rows, g)] :
            g \in {rows[i].paper_id : i \in 1..Len(rows)}}

RECURSIVE sum_citation_count(_)
sum_citation_count(rows) ==
    IF rows = {} THEN 0
    ELSE LET r == CHOOSE x \in rows : TRUE
         IN r.citation_count + sum_citation_count(rows \ {r})

\* SUM(citation_count) over all rows, without the inner MAX ... GROUP BY.
total_citations_all_rows(cs, platform) ==
    LET rows == IF truthy(platform)
                THEN SelectSeq(cs, LAMBDA r : r.platform = platform)
                ELSE cs
    IN SumSeq([i \in 1..Len(rows) |-> rows[i].citation_count])

\* SUM(...) is NULL over no rows; `result[0] if result and result[0] else 0`.
total_citations(cs, platform) ==
    LET latest == latest_per_paper(cs, platform)
        total  == IF latest = {} THEN NullId ELSE sum_citation_count(latest)
    IN IF total # NullId /\ total # 0 THEN total ELSE 0

get_total_citations(d, platform) ==
    /\ conn' = connect_conn(d)
    /\ last_insert_rowid' = connect_last(d)
    /\ ret' = [call |-> "get_total_citations", db |-> d, platform |-> platform,
               result |-> total_citations(citations, platform)]
    /\ UNCHANGED storeVars

get_paper_count(d) ==
    /\ conn' = connect_conn(d)
    /\ last_insert_rowid' = connect_last(d)
    /\ ret' = [call |-> "get_paper_count", db |-> d, result |-> Len(papers)]
    /\ UNCHANGED storeVars

\* ORDER BY citations DESC: SQLite's sorter keeps rows of equal key in the
\* order they were produced (here rowid order of papers); NULL sorts last.
RECURSIVE order_by_citations_desc(_)
order_by_citations_desc(rows) ==
    IF rows = <<>> THEN <<>>
    ELSE LET m == SetMax({rows[i].citations : i \in 1..Len(rows)})
             k == CHOOSE i \in 1..Len(rows) :
                      /\ rows[i].citations = m
                      /\ \A j \in 1..(i - 1) : rows[j].citations # m
         IN <<rows[k]>> \o
            order_by_citations_desc(SubSeq(rows, 1, k - 1) \o SubSeq(rows, k + 1, Len(rows)))

\* One joined, grouped row: the paper's columns plus the aggregate.
with_citations(p, c) ==
    [id |-> p.id, title |-> p.title, doi |-> p.doi, arxiv_id |-> p.arxiv_id,
     year |-> p.year, authors |-> p.authors, citations |-> c]

\* The most recent observation of the paper instead of the maximum.
coalesce_latest(cs, paper_id) ==
    LET own == SelectSeq(cs, LAMBDA r : r.paper_id = paper_id)
    IN IF own = <<>> THEN 0 ELSE own[Len(own)].citation_count

\* COALESCE(MAX(c.citation_count), 0)
coalesce_max(cs, paper_id) ==
    LET m == max_citation_count(cs, paper_id) IN IF m = NullId THEN 0 ELSE m

\* papers p LEFT JOIN citations c ON p.id = c.paper_id GROUP BY p.id
\* ORDER BY citations DESC
papers_with_latest_citations(ps, cs) ==
    order_by_citations_desc([i \in 1..Len(ps) |-> with_citations(ps[i], coalesce_max(cs, ps[i].id))])

get_papers_with_latest_citations(d) ==
    /\ conn' = connect_conn(d)
    /\ last_insert_rowid' = connect_last(d)
    /\ ret' = [call |-> "get_papers_with_latest_citations", db |-> d,
               result |-> papers_with_latest_citations(papers, citations)]
    /\ UNCHANGED storeVars

\* tracked_papers tp JOIN papers p ON tp.paper_id = p.id LEFT JOIN citations
\* GROUP BY p.id ORDER BY citations DESC; MAX is NULL without observations.
tracked_with_citations(ps, cs, ts) ==
    LET tracked == SelectSeq(ps, LAMBDA p : \E i \in 1..Len(ts) : ts[i].paper_id = p.id)
    IN order_by_citations_desc(
           [i \in 1..Len(tracked) |->
               with_citations(tracked[i], max_citation_count(cs, tracked[i].id))])

get_tracked_papers(d) ==
    /\ conn' = connect_conn(d)
    /\ last_insert_rowid' = connect_last(d)
    /\ ret' = [call |-> "get_tracked_papers", db |-> d,
               result |-> tracked_with_citations(papers, citations, tracked_papers)]
    /\ UNCHANGED storeVars

(***************************************************************************)
(* Database.get_citation_history / Database.export_all_data                *)
(***************************************************************************)
SecondsPerDay == 86400

\* WHERE paper_id = ? AND timestamp >= datetime('now', '-' || ? || ' days'),
\* evaluated at time t.  For a negative number the modifier reads
\* '--1 days', which SQLite rejects: datetime() is NULL and no row passes.
history_window(cs, paper_id, days, t) ==
    IF days < 0 THEN <<>>
    ELSE SelectSeq(cs, LAMBDA r : /\ r.paper_id = paper_id
                                  /\ r.timestamp >= t - days * SecondsPerDay)

\* ORDER BY timestamp DESC: rows of equal timestamp stay in rowid order.
RECURSIVE order_by_timestamp_desc(_)
order_by_timestamp_desc(rows) ==
    IF rows = <<>> THEN <<>>
    ELSE LET m == SetMax({rows[i].timestamp : i \in 1..Len(rows)})
             k == CHOOSE i \in 1..Len(rows) :
                      /\ rows[i].timestamp = m
                      /\ \A j \in 1..(i - 1) : rows[j].timestamp # m
         IN <<rows[k]>> \o
            order_by_timestamp_desc(SubSeq(rows, 1, k - 1) \o SubSeq(rows, k + 1, Len(rows)))

\* SELECT platform, citation_count, timestamp
history_row(r) ==
    [platform |-> r.platform, citation_count |-> r.citation_count,
     timestamp |-> r.timestamp]

citation_history(cs, paper_id, days, t) ==
    LET rows == order_by_timestamp_desc(history_window(cs, paper_id, days, t))
    IN [i \in 1..Len(rows) |-> history_row(rows[i])]

get_citation_history(d, paper_id, days) ==
    /\ conn' = connect_conn(d)
    /\ last_insert_rowid' = connect_last(d)
    /\ ret' = [call |-> "get_citation_history", db |-> d, paper_id |-> paper_id,
               days |-> days,
               result |-> citation_history(citations, paper_id, days, now)]
    /\ UNCHANGED storeVars

\* SELECT p.title, p.doi, p.arxiv_id, p.year, p.venue, COALESCE(MAX(...), 0)
\* (venue is NULL in every row: no modelled call passes one).
export_row(r) ==
    [title |-> r.title, doi |-> r.doi, arxiv_id |-> r.arxiv_id, year |-> r.year,
     citations |-> r.citations]

exported_rows(ps, cs) ==
    LET listing == papers_with_latest_citations(ps, cs)
    IN [i \in 1..Len(listing) |-> export_row(listing[i])]

export_all_data(d) ==
    /\ conn' = connect_conn(d)
    /\ last_insert_rowid' = connect_last(d)
    /\ ret' = [call |-> "export_all_data", db |-> d,
               result |-> exported_rows(papers, citations)]
    /\ UNCHANGED storeVars

(***************************************************************************)
(* Database.add_recommendation / Database.add_alert                        *)
(***************************************************************************)
recommendation_row(id, category, title, description, priority) ==
    [id |-> id, category |-> category, title |-> title,
     description |-> description, priority |-> priority, actioned |-> FALSE]

\* INSERT INTO recommendations
insert_recommendation(rs, category, title, description, priority) ==
    Append(rs, recommendation_row(Len(rs) + 1, category, title, description, priority))

add_recommendation(d, category, title, description, priority) ==
    /\ recommendations' = insert_recommendation(recommendations, category, title,
                                                description, priority)
    /\ conn' = connect_conn(d)
    /\ last_insert_rowid' = [last_insert_rowid EXCEPT ![d] = Len(recommendations) + 1]
    /\ ret' = [call |-> "add_recommendation", db |-> d, category |-> category,
               title |-> title, description |-> description, priority |-> priority]
    /\ UNCHANGED <<papers, papers_seq, citations, tracked_papers, sync_status, sync_seq,
                   alerts>>

alert_row(id, paper_id, alert_type, message) ==
    [id |-> id, paper_id |-> paper_id, alert_type |-> alert_type,
     message |-> message, read |-> FALSE]

\* INSERT INTO alerts
insert_alert(rows, paper_id, alert_type, message) ==
    Append(rows, alert_row(Len(rows) + 1, paper_id, alert_type, message))

add_alert(d, paper_id, alert_type, message) ==
    /\ alerts' = insert_alert(alerts, paper_id, alert_type, message)
    /\ conn' = connect_conn(d)
    /\ last_insert_rowid' = [last_insert_rowid EXCEPT ![d] = Len(alerts) + 1]
    /\ ret' = [call |-> "add_alert", db |-> d, paper_id |-> paper_id,
               alert_type |-> alert_type, message |-> message]
    /\ UNCHANGED <<papers, papers_seq, citations, tracked_papers, sync_status, sync_seq,
                   recommendations>>

(***************************************************************************)
(* The store driven by one Database instance                               *)
(***************************************************************************)
\* Bound on the rows written in one behaviour (all tables together, an
\* ignored insert into papers counted as one), and on the clock.
MaxRows == 3
MaxNow  == 1

rows_written ==
    papers_seq + Len(citations) + Len(tracked_papers) + sync_seq
        + Len(recommendations) + Len(alerts)

TitleA  == <<"a">>
TitleAB == <<"a", "b">>

NoAuthors == <<>>

StoreDBs       == {1}
StoreTitles    == {TitleA}
StoreDois      == {NULL, "d1"}
StoreArxivIds  == {NULL, "a1", "a2"}
StorePaperIds  == {1, 2}
StorePlatforms == {"X", "Y"}
StoreCounts    == {3, 10}
StoreHistoryIds == {1}
StoreDays       == {0, 30}
StoreAlertIds   == {NullId, 1}
\* (status, error_message) as the fetch step reports them
SyncOutcomes   == {<<"success", NULL>>, <<"error", "timeout">>}

NoCall == [call |-> "none", db |-> 0]

IdleRace ==
    /\ db_lock = 0
    /\ pc = [d \in DBs |-> "idle"]
    /\ call_args = [d \in DBs |-> [doi |-> NULL, arxiv_id |-> NULL]]
    /\ call_ret = [d \in DBs |-> NullId]

IdleFetch ==
    /\ fetch_pc = "idle"
    /\ fetch_args = [fetch_all |-> FALSE, platforms |-> <<>>]
    /\ platforms_to_fetch = <<>>
    /\ fetch_idx = 0
    /\ fetch_calls = <<>>
    /\ fetch_log = <<>>

\* The store right after `elephant init`: Database.initialize() has created
\* the empty tables; no Database instance holds a connection.
EmptyStore ==
    /\ papers = <<>>
    /\ papers_seq = 0
    /\ citations = <<>>
    /\ tracked_papers = <<>>
    /\ sync_status = <<>>
    /\ sync_seq = 0
    /\ recommendations = <<>>
    /\ alerts = <<>>
    /\ now = 0
    /\ conn = [d \in DBs |-> FALSE]
    /\ last_insert_rowid = [d \in DBs |-> 0]
    /\ ret = NoCall

\* Config.platforms is a dict: its items come in the order of the YAML file.
platform_config(name, enabled) == [name |-> name, enabled |-> enabled]

\* The platforms section init_command writes.  yaml.dump sorts the keys, so
\* the file lists the platforms by name, and so does the dict read from it.
InitPlatformNames ==
    <<"arxiv", "google_scholar", "orcid", "scopus", "semantic_scholar", "web_of_science">>

init_enabled(name) == name \notin {"web_of_science", "scopus"}

\* The configuration a command gets from main() right after `elephant init`.
DefaultConfig ==
    [loaded |-> TRUE,
     platforms |-> [i \in 1..Len(InitPlatformNames) |->
                       platform_config(InitPlatformNames[i],
                                       init_enabled(InitPlatformNames[i]))]]

\* One platform's section of the configuration file.
platform_settings(name, enabled, api_key) ==
    [name |-> name, enabled |-> enabled, api_key |-> api_key]

alerts_config(enabled, email_notifications, min_citation_threshold) ==
    [enabled |-> enabled, email_notifications |-> email_notifications,
     min_citation_threshold |-> min_citation_threshold]

\* The configuration file's sections, as init_command writes them; the
\* platforms and the alerts section are the ones that vary.
config_data(platforms, alerts_section) ==
    [exists |-> TRUE,
     user |-> [name |-> "n", email |-> "e", orcid |-> "o"],
     platforms |-> platforms,
     database |-> [path |-> "citations.db"],
     tracking |-> [auto_fetch |-> TRUE, fetch_interval_hours |-> 24],
     alerts |-> alerts_section,
     recommendations |-> [enabled |-> TRUE, check_trending_topics |-> TRUE,
                          suggest_collaborations |-> TRUE,
                          identify_low_visibility_papers |-> TRUE]]

\* config_path.exists() is false.
NoFile == [exists |-> FALSE]

\* No <PLATFORM>_API_KEY variable is set.
NoEnviron == [name \in Range(InitPlatformNames) |-> NULL]

\* The platforms section of the file: as init_command writes it, with the
\* given api_key for arxiv and the given enabled flag for scopus.
file_platforms(arxiv_key, scopus_enabled) ==
    [i \in 1..Len(InitPlatformNames) |->
        LET name == InitPlatformNames[i]
        IN platform_settings(name,
                             IF name = "scopus" THEN scopus_enabled ELSE init_enabled(name),
                             IF name = "arxiv" THEN arxiv_key ELSE NULL)]

\* The file right after `elephant init`, with nothing in the environment.
FileAsInitialized ==
    /\ config_file = config_data(file_platforms(NULL, FALSE), alerts_config(TRUE, FALSE, 1))
    /\ environ = NoEnviron

Init ==
    /\ EmptyStore
    /\ IdleRace
    /\ config = DefaultConfig
    /\ FileAsInitialized
    /\ IdleFetch

StoreAddPaper ==
    /\ rows_written < MaxRows
    /\ \E d \in StoreDBs, title \in StoreTitles, doi \in StoreDois, arxiv_id \in StoreArxivIds :
           add_paper(d, title, doi, arxiv_id, NullId, NoAuthors)
    /\ UNCHANGED <<raceVars, config, fileVars, now, fetchVars>>

StoreAddCitationRecord ==
    /\ rows_written < MaxRows
    /\ \E d \in StoreDBs, paper_id \in StorePaperIds, platform \in {"X"}, n \in StoreCounts :
           add_citation_record(d, paper_id, platform, n)
    /\ UNCHANGED <<raceVars, config, fileVars, now, fetchVars>>

StoreAddTrackedPaper ==
    /\ rows_written < MaxRows
    /\ \E d \in StoreDBs, doi \in {NULL, "d1"}, arxiv_id \in {NULL, "a1"},
          title \in {NoTitle, TitleA, TitleAB} :
           add_tracked_paper(d, doi, arxiv_id, title)
    /\ UNCHANGED <<raceVars, config, fileVars, now, fetchVars>>

StoreUpdateSyncStatus ==
    /\ rows_written < MaxRows
    /\ \E d \in StoreDBs, platform \in StorePlatforms, o \in SyncOutcomes :
           update_sync_status(d, platform, o[1], o[2])
    /\ UNCHANGED <<raceVars, config, fileVars, now, fetchVars>>

StoreInitialize ==
    /\ \E d \in StoreDBs : initialize(d)
    /\ UNCHANGED <<raceVars, config, fileVars, now, fetchVars>>

StoreClose ==
    /\ \E d \in StoreDBs : close(d)
    /\ UNCHANGED <<raceVars, config, fileVars, now, fetchVars>>

StoreGetTotalCitations ==
    /\ \E d \in StoreDBs, platform \in {NULL, "X"} : get_total_citations(d, platform)
    /\ UNCHANGED <<raceVars, config, fileVars, now, fetchVars>>

StoreGetPaperCount ==
    /\ \E d \in StoreDBs : get_paper_count(d)
    /\ UNCHANGED <<raceVars, config, fileVars, now, fetchVars>>

StoreGetPapersWithLatestCitations ==
    /\ \E d \in StoreDBs : get_papers_with_latest_citations(d)
    /\ UNCHANGED <<raceVars, config, fileVars, now, fetchVars>>

StoreGetTrackedPapers ==
    /\ \E d \in StoreDBs : get_tracked_papers(d)
    /\ UNCHANGED <<raceVars, config, fileVars, now, fetchVars>>

StoreGetCitationHistory ==
    /\ \E d \in StoreDBs, paper_id \in StoreHistoryIds, days \in StoreDays :
           get_citation_history(d, paper_id, days)
    /\ UNCHANGED <<raceVars, config, fileVars, now, fetchVars>>

StoreExportAllData ==
    /\ \E d \in StoreDBs : export_all_data(d)
    /\ UNCHANGED <<raceVars, config, fileVars, now, fetchVars>>

StoreAddRecommendation ==
    /\ rows_written < MaxRows
    /\ \E d \in StoreDBs : add_recommendation(d, "visibility", "t", "d", "high")
    /\ UNCHANGED <<raceVars, config, fileVars, now, fetchVars>>

StoreAddAlert ==
    /\ rows_written < MaxRows
    /\ \E d \in StoreDBs, paper_id \in StoreAlertIds : add_alert(d, paper_id, "t", "m")
    /\ UNCHANGED <<raceVars, config, fileVars, now, fetchVars>>

\* A second passes between two calls.
Tick ==
    /\ now < MaxNow
    /\ now' = now + 1
    /\ ret' = NoCall
    /\ UNCHANGED <<storeVars, connVars, raceVars, config, fileVars, fetchVars>>

\* One call on the Database.
StoreCall ==
    \/ StoreAddPaper
    \/ StoreAddCitationRecord
    \/ StoreAddTrackedPaper
    \/ StoreUpdateSyncStatus
    \/ StoreInitialize
    \/ StoreClose
    \/ StoreGetTotalCitations
    \/ StoreGetPaperCount
    \/ StoreGetPapersWithLatestCitations
    \/ StoreGetTrackedPapers
    \/ StoreGetCitationHistory
    \/ StoreExportAllData
    \/ StoreAddRecommendation
    \/ StoreAddAlert

Next ==
    \/ StoreCall
    \/ Tick

Spec == Init /\ [][Next]_vars

\* The same calls made in quick succession, within one second.
BurstSpec == Init /\ [][StoreCall]_vars

(***************************************************************************)
(* The citation ledger and its aggregates                                  *)
(***************************************************************************)
MaxLedgerPapers  == 2
MaxObservations  == 3

LedgerPaperIds  == {1, 2}
LedgerPlatforms == {"X", "Y"}
LedgerCounts    == {3, 10, 15}

LedgerAddPaper ==
    /\ Len(papers) < MaxLedgerPapers
    /\ add_paper(1, TitleA, NULL, NULL, NullId, NoAuthors)
    /\ UNCHANGED <<raceVars, config, fileVars, now, fetchVars>>

LedgerAddCitationRecord ==
    /\ Len(citations) < MaxObservations
    /\ \E paper_id \in LedgerPaperIds, platform \in LedgerPlatforms, n \in LedgerCounts :
           add_citation_record(1, paper_id, platform, n)
    /\ UNCHANGED <<raceVars, config, fileVars, now, fetchVars>>

LedgerGetTotalCitations ==
    /\ \E platform \in {NULL} \cup LedgerPlatforms : get_total_citations(1, platform)
    /\ UNCHANGED <<raceVars, config, fileVars, now, fetchVars>>

LedgerGetPapersWithLatestCitations ==
    /\ get_papers_with_latest_citations(1)
    /\ UNCHANGED <<raceVars, config, fileVars, now, fetchVars>>

LedgerNext ==
    \/ LedgerAddPaper
    \/ LedgerAddCitationRecord
    \/ LedgerGetTotalCitations
    \/ LedgerGetPapersWithLatestCitations

LedgerSpec == Init /\ [][LedgerNext]_vars

(***************************************************************************)
(* Properties of the paper store                                           *)
(***************************************************************************)
\* The rows of ps that carry the given DOI or the given arXiv ID.
matching_rows(ps, doi, arxiv_id) ==
    {i \in 1..Len(ps) : \/ (doi # NULL /\ ps[i].doi = doi)
                        \/ (arxiv_id # NULL /\ ps[i].arxiv_id = arxiv_id)}

\* C1: an add_paper call whose DOI or arXiv ID equals that of an existing
\* paper row creates no new row (the paper count is the same before and
\* after the call).
C1_NoNewRowOnMatch ==
    [][(/\ ret'.call = "add_paper"
        /\ matching_rows(papers, ret'.doi, ret'.arxiv_id) # {})
       => Len(papers') = Len(papers)]_vars

\* C2: add_paper called with a DOI or arXiv ID that matches an existing paper
\* returns the identifier of a row it matches, never None and never the
\* identifier of another row, whatever was inserted earlier on the connection.
C2_ReturnsExistingId ==
    [][(/\ ret'.call = "add_paper"
        /\ matching_rows(papers, ret'.doi, ret'.arxiv_id) # {})
       => \E i \in matching_rows(papers, ret'.doi, ret'.arxiv_id) :
              ret'.result = papers[i].id]_vars

\* C6: the citation ledger is append-only.  add_citation_record adds exactly
\* one row carrying the given paper, platform and count (also when the count
\* is lower than an earlier one); no other operation changes the ledger.
C6_LedgerAppendOnly ==
    [][IF ret'.call = "add_citation_record"
       THEN /\ Len(citations') = Len(citations) + 1
            /\ SubSeq(citations', 1, Len(citations)) = citations
            /\ citations'[Len(citations')].paper_id = ret'.paper_id
            /\ citations'[Len(citations')].platform = ret'.platform
            /\ citations'[Len(citations')].citation_count = ret'.citation_count
       ELSE citations' = citations]_vars

\* C6 witness: a lower count was recorded after a higher one for the same
\* paper and platform, and both rows are in the ledger.
C6_Witness ==
    /\ ret.call = "add_citation_record"
    /\ Len(citations) >= 2
    /\ \E i \in 1..(Len(citations) - 1) :
           /\ citations[i].paper_id = citations[Len(citations)].paper_id
           /\ citations[i].platform = citations[Len(citations)].platform
           /\ citations[i].citation_count > citations[Len(citations)].citation_count

\* C7: tracked_papers holds at most one row per paper.
C7_OneTrackedRowPerPaper ==
    \A i, j \in 1..Len(tracked_papers) :
        tracked_papers[i].paper_id = tracked_papers[j].paper_id => i = j

sync_rows_of(ss, platform) == {i \in 1..Len(ss) : ss[i].platform = platform}

\* C8: sync_status holds exactly one row per platform ever updated, carrying
\* the status and error message of the most recent call for that platform;
\* a call for one platform leaves the rows of the other platforms unchanged,
\* and no other operation changes the table.
C8_SyncStatusUpsert ==
    [][/\ \A q \in StorePlatforms : Cardinality(sync_rows_of(sync_status', q)) <= 1
       /\ IF ret'.call = "update_sync_status"
          THEN /\ \E i \in 1..Len(sync_status') :
                      /\ sync_rows_of(sync_status', ret'.platform) = {i}
                      /\ sync_status'[i].status = ret'.status
                      /\ sync_status'[i].error_message = ret'.error_message
               /\ \A q \in StorePlatforms \ {ret'.platform} :
                      {sync_status'[i] : i \in sync_rows_of(sync_status', q)}
                          = {sync_status[i] : i \in sync_rows_of(sync_status, q)}
          ELSE sync_status' = sync_status]_vars

\* C8 witness: platform X was updated, then Y, then X again with another
\* status; the table holds one row for each.
C8_Witness ==
    /\ ret.call = "update_sync_status"
    /\ sync_seq = 3
    /\ Len(sync_status) = 2
    /\ sync_status[1].platform # ret.platform
    /\ sync_status[2].platform = ret.platform
    /\ sync_status[2].status = "error"
    /\ sync_status[1].status = "success"

(***************************************************************************)
(* Properties of the ledger aggregates                                     *)
(***************************************************************************)
\* The observations get_total_citations(platform) looks at.
observed(cs, platform) ==
    {i \in 1..Len(cs) : platform = NULL \/ cs[i].platform = platform}

\* Row i holds its paper's maximum among the rows in `among`, and is the
\* first such row: one representative row per paper.
is_paper_maximum(cs, among, i) ==
    \A j \in among :
        cs[j].paper_id = cs[i].paper_id =>
            \/ cs[j].citation_count < cs[i].citation_count
            \/ (cs[j].citation_count = cs[i].citation_count /\ i <= j)

\* Sum over the distinct papers with an observation of the paper's maximum.
sum_of_paper_maxima(cs, platform) ==
    LET among == observed(cs, platform)
    IN SumSeq([i \in 1..Len(cs) |->
                  IF i \in among /\ is_paper_maximum(cs, among, i)
                  THEN cs[i].citation_count ELSE 0])

\* C4: get_total_citations(platform) is the sum, over the distinct papers
\* with at least one observation (on that platform when one is given), of the
\* paper's maximum observed count, and 0 without observations.
C4_TotalIsSumOfMaxima ==
    ret.call = "get_total_citations" =>
        /\ ret.result = sum_of_paper_maxima(citations, ret.platform)
        /\ (observed(citations, ret.platform) = {} => ret.result = 0)

\* C4 witness: observations (A, X, 10), (A, X, 15), (B, Y, 3) total 18.
C4_Witness ==
    /\ ret.call = "get_total_citations"
    /\ ret.platform = NULL
    /\ Len(papers) = 2
    /\ citations = <<citation_row(1, 1, "X", 10, 0), citation_row(2, 1, "X", 15, 0),
                     citation_row(3, 2, "Y", 3, 0)>>
    /\ ret.result = 18

\* m is the maximum count observed for the paper, 0 when none was observed.
is_latest_count(cs, paper_id, m) ==
    LET own == {i \in 1..Len(cs) : cs[i].paper_id = paper_id}
    IN IF own = {} THEN m = 0
       ELSE /\ \E i \in own : cs[i].citation_count = m
            /\ \A i \in own : cs[i].citation_count <= m

\* C5: get_papers_with_latest_citations returns exactly one entry per paper
\* row, each with the paper's maximum observed count over all platforms (0
\* without observations), ordered by citations non-increasing.
C5_LatestCitationsListing ==
    ret.call = "get_papers_with_latest_citations" =>
        LET r == ret.result
        IN /\ Len(r) = Len(papers)
           /\ \A i \in 1..Len(papers) :
                  Cardinality({k \in 1..Len(r) : r[k].id = papers[i].id}) = 1
           /\ \A k \in 1..Len(r) : is_latest_count(citations, r[k].id, r[k].citations)
           /\ \A k \in 1..(Len(r) - 1) : r[k].citations >= r[k + 1].citations

\* C5 witness: paper 2 was observed on two platforms, the higher count first,
\* paper 1 never; the listing puts paper 2 first with its maximum and paper 1
\* last with 0.
C5_Witness ==
    /\ ret.call = "get_papers_with_latest_citations"
    /\ Len(papers) = 2
    /\ Len(ret.result) = 2
    /\ ret.result[1].id = 2
    /\ ret.result[1].citations = 15
    /\ ret.result[2].citations = 0
    /\ \E i, j \in 1..Len(citations) :
           /\ i < j
           /\ citations[i].paper_id = 2 /\ citations[j].paper_id = 2
           /\ citations[i].platform # citations[j].platform
           /\ citations[i].citation_count = 15
           /\ citations[j].citation_count < 15

(***************************************************************************)
(* Two writers in add_paper on the same store file                         *)
(***************************************************************************)
\* Each writer is a Database instance with its own connection.  Python's
\* sqlite3 opens a transaction before the INSERT, which takes SQLite's write
\* lock; the lock is held until commit().  A second writer's INSERT waits in
\* the busy handler (5 s by default), which outlasts the few statements the
\* first writer still runs.
RaceDoi == "d1"

\* Stores an earlier run can have left behind.
RaceStores ==
    {<<>>,
     <<paper_row(1, TitleA, RaceDoi, "a1", NullId, NoAuthors)>>,
     <<paper_row(1, TitleA, "d2", NULL, NullId, NoAuthors)>>}

RaceInit ==
    /\ papers \in RaceStores
    /\ papers_seq = Len(papers)
    /\ citations = <<>>
    /\ tracked_papers = <<>>
    /\ sync_status = <<>>
    /\ sync_seq = 0
    /\ recommendations = <<>>
    /\ alerts = <<>>
    /\ now = 0
    /\ conn = [d \in DBs |-> FALSE]
    /\ last_insert_rowid = [d \in DBs |-> 0]
    /\ ret = NoCall
    /\ db_lock = 0
    /\ pc = [d \in DBs |-> "start"]
    /\ call_args \in [DBs -> [doi : {RaceDoi}, arxiv_id : {NULL, "a1", "a2"}]]
    /\ call_ret = [d \in DBs |-> NullId]
    /\ config = DefaultConfig
    /\ FileAsInitialized
    /\ IdleFetch

\* self.connect()
RaceConnect(d) ==
    /\ pc[d] = "start"
    /\ conn' = connect_conn(d)
    /\ last_insert_rowid' = connect_last(d)
    /\ pc' = [pc EXCEPT ![d] = "insert"]
    /\ UNCHANGED <<storeVars, ret, db_lock, call_args, call_ret, config, fileVars, now, fetchVars>>

\* cursor = self.conn.execute(INSERT OR IGNORE ...); if cursor.lastrowid == 0
RaceInsert(d) ==
    LET a == call_args[d]
        lastrowid == insert_lastrowid(papers, papers_seq, a.doi, a.arxiv_id,
                                      last_insert_rowid[d])
    IN /\ pc[d] = "insert"
       /\ db_lock = 0
       /\ db_lock' = d
       /\ papers' = insert_or_ignore_paper(papers, papers_seq, TitleA, a.doi, a.arxiv_id,
                                           NullId, NoAuthors)
       /\ papers_seq' = paper_seq_after(papers_seq)
       /\ last_insert_rowid' = [last_insert_rowid EXCEPT ![d] = lastrowid]
       /\ call_ret' = [call_ret EXCEPT ![d] = IF lastrowid = 0 THEN NullId ELSE lastrowid]
       /\ pc' = [pc EXCEPT ![d] = IF lastrowid = 0 THEN "lookup" ELSE "commit"]
       /\ UNCHANGED <<citations, tracked_papers, sync_status, sync_seq, recommendations,
                      alerts, conn, ret, call_args, config, fileVars, now, fetchVars>>

\* SELECT id FROM papers WHERE doi = ? OR arxiv_id = ?; row[0] if row else None
RaceLookup(d) ==
    /\ pc[d] = "lookup"
    /\ call_ret' = [call_ret EXCEPT ![d] =
                       select_id_by_doi_or_arxiv(papers, call_args[d].doi, call_args[d].arxiv_id)]
    /\ pc' = [pc EXCEPT ![d] = "commit"]
    /\ UNCHANGED <<storeVars, connVars, ret, db_lock, call_args, config, fileVars, now, fetchVars>>

\* self.conn.commit(); return paper_id
RaceCommit(d) ==
    /\ pc[d] = "commit"
    /\ db_lock' = 0
    /\ pc' = [pc EXCEPT ![d] = "done"]
    /\ UNCHANGED <<storeVars, connVars, ret, call_args, call_ret, config, fileVars, now, fetchVars>>

RaceNext ==
    \E d \in DBs :
        \/ RaceConnect(d)
        \/ RaceInsert(d)
        \/ RaceLookup(d)
        \/ RaceCommit(d)

RaceSpec == RaceInit /\ [][RaceNext]_vars

\* C3: when two writers run add_paper with the same DOI concurrently, the
\* store ends with exactly one paper row for that DOI and both calls return
\* that row's identifier.
C3_RaceLeavesOneRow ==
    (\A d \in DBs : pc[d] = "done") =>
        LET rows == {i \in 1..Len(papers) : papers[i].doi = RaceDoi}
        IN /\ Cardinality(rows) = 1
           /\ \A d \in DBs : \A i \in rows : call_ret[d] = papers[i].id

(***************************************************************************)
(* fetch_command                                                           *)
(***************************************************************************)
\* Longest --platform tuple tried.
MaxPlatformArgs == 2

FetchPlatformNames == <<"arxiv", "orcid", "scopus">>

RECURSIVE TuplesUpTo(_, _)
TuplesUpTo(S, n) ==
    IF n = 0 THEN {<<>>}
    ELSE LET shorter == TuplesUpTo(S, n - 1)
         IN shorter \cup {Append(t, x) : t \in shorter, x \in S}

\* The configuration as initialized, and files cut down to three platforms
\* with every choice of enabled flags; loaded or not.
FetchConfigs ==
    {DefaultConfig} \cup
    {[loaded |-> l,
      platforms |-> [i \in 1..Len(FetchPlatformNames) |->
                        platform_config(FetchPlatformNames[i], en[i])]] :
        l \in BOOLEAN, en \in [1..Len(FetchPlatformNames) -> BOOLEAN]}

FetchInit ==
    /\ EmptyStore
    /\ IdleRace
    /\ config \in FetchConfigs
    /\ FileAsInitialized
    /\ fetch_pc = "start"
    /\ fetch_args \in [fetch_all : BOOLEAN,
                       platforms : TuplesUpTo(Range(FetchPlatformNames) \cup {"unknown"},
                                              MaxPlatformArgs)]
    /\ platforms_to_fetch = <<>>
    /\ fetch_idx = 0
    /\ fetch_calls = <<>>
    /\ fetch_log = <<>>

\* [p for p, cfg in config.platforms.items() if cfg.enabled]
enabled_platforms(cfg) ==
    LET en == SelectSeq(cfg.platforms, LAMBDA pl : pl.enabled)
    IN [i \in 1..Len(en) |-> en[i].name]

\* Lines 80-96: the guards and the choice of platforms_to_fetch.
FetchSelect ==
    /\ fetch_pc = "start"
    /\ IF ~config.loaded
       THEN fetch_pc' = "returned" /\ platforms_to_fetch' = <<>>
       ELSE IF fetch_args.fetch_all
       THEN fetch_pc' = "loop" /\ platforms_to_fetch' = enabled_platforms(config)
       ELSE IF fetch_args.platforms # <<>>
       THEN fetch_pc' = "loop" /\ platforms_to_fetch' = fetch_args.platforms
       ELSE fetch_pc' = "returned" /\ platforms_to_fetch' = <<>>
    /\ UNCHANGED <<storeVars, connVars, ret, raceVars, config, fileVars, now, fetch_args,
                   fetch_idx, fetch_calls, fetch_log>>

\* One iteration in which fetcher.fetch_platform(platform) returns a result.
FetchPlatformReturns ==
    /\ fetch_pc = "loop"
    /\ fetch_idx < Len(platforms_to_fetch)
    /\ fetch_calls' = Append(fetch_calls, platforms_to_fetch[fetch_idx + 1])
    /\ fetch_log' = Append(fetch_log, "ok")
    /\ fetch_idx' = fetch_idx + 1
    /\ UNCHANGED <<storeVars, connVars, ret, raceVars, config, fileVars, now, fetch_args,
                   platforms_to_fetch, fetch_pc>>

\* The exception leaves fetch_command: the remaining platforms are skipped.
FetchPlatformRaisesUncaught ==
    /\ fetch_pc = "loop"
    /\ fetch_idx < Len(platforms_to_fetch)
    /\ fetch_calls' = Append(fetch_calls, platforms_to_fetch[fetch_idx + 1])
    /\ fetch_log' = Append(fetch_log, "error")
    /\ fetch_pc' = "raised"
    /\ UNCHANGED <<storeVars, connVars, ret, raceVars, config, fileVars, now, fetch_args,
                   platforms_to_fetch, fetch_idx>>

\* One iteration in which fetcher.fetch_platform(platform) raises: the
\* `except Exception` clause reports it and the loop goes on.
FetchPlatformRaises ==
    /\ fetch_pc = "loop"
    /\ fetch_idx < Len(platforms_to_fetch)
    /\ fetch_calls' = Append(fetch_calls, platforms_to_fetch[fetch_idx + 1])
    /\ fetch_log' = Append(fetch_log, "error")
    /\ fetch_idx' = fetch_idx + 1
    /\ UNCHANGED <<storeVars, connVars, ret, raceVars, config, fileVars, now, fetch_args,
                   platforms_to_fetch, fetch_pc>>

\* The loop is exhausted: "Data fetch completed!"
FetchCompleted ==
    /\ fetch_pc = "loop"
    /\ fetch_idx = Len(platforms_to_fetch)
    /\ fetch_pc' = "done"
    /\ UNCHANGED <<storeVars, connVars, ret, raceVars, config, fileVars, now, fetch_args,
                   platforms_to_fetch, fetch_idx, fetch_calls, fetch_log>>

FetchNext ==
    \/ FetchSelect
    \/ FetchPlatformReturns
    \/ FetchPlatformRaises
    \/ FetchCompleted

\* fetch_command is sequential code: it takes its next step whenever it has
\* one, every call of fetch_platform returning or raising.
FetchSpec == FetchInit /\ [][FetchNext]_vars /\ WF_vars(FetchNext)

\* C9: fetch_platform is invoked exactly once for every selected platform, in
\* list order, whichever earlier platforms raised, and the command always
\* reaches its end.
C9_FetchIsolatesFailures ==
    /\ [](fetch_pc \in {"loop", "done"} =>
              fetch_calls = SubSeq(platforms_to_fetch, 1, fetch_idx))
    /\ [](fetch_pc = "done" => fetch_calls = platforms_to_fetch)
    /\ [](fetch_pc \in {"start", "loop", "done", "returned"})
    /\ <>(fetch_pc \in {"done", "returned"})

\* C9 witness: the first platform raised, the second was still fetched, and
\* the command completed.
C9_Witness ==
    /\ fetch_pc = "done"
    /\ Len(platforms_to_fetch) >= 2
    /\ fetch_calls = platforms_to_fetch
    /\ fetch_log[1] = "error"
    /\ fetch_log[2] = "ok"

(***************************************************************************)
(* RecommendationEngine                                                    *)
(***************************************************************************)
\* A recommendation record: the fields the ranking reads and the ones that
\* tell the rules apart.  The free text (description, impact, effort, action)
\* and the data payload are left out.
recommendation(category, priority, title) ==
    [category |-> category, priority |-> priority, title |-> title]

LowVisThreshold == 5
MinAgeYears     == 1
current_year    == 2026

\* MetricsCalculator.identify_low_visibility_papers(threshold): the papers
\* with fewer citations than the threshold that are at least a year old, most
\* under-cited first.  (src/analytics/metrics.py is not part of the sources;
\* this follows the specification, section 4.3.)
RECURSIVE order_by_citations_asc(_)
order_by_citations_asc(rows) ==
    IF rows = <<>> THEN <<>>
    ELSE LET m == CHOOSE x \in {rows[i].citations : i \in 1..Len(rows)} :
                      \A i \in 1..Len(rows) : x <= rows[i].citations
             k == CHOOSE i \in 1..Len(rows) :
                      /\ rows[i].citations = m
                      /\ \A j \in 1..(i - 1) : rows[j].citations # m
         IN <<rows[k]>> \o
            order_by_citations_asc(SubSeq(rows, 1, k - 1) \o SubSeq(rows, k + 1, Len(rows)))

identify_low_visibility_papers(ps, cs, threshold) ==
    order_by_citations_asc(
        SelectSeq(papers_with_latest_citations(ps, cs),
                  LAMBDA p : /\ p.citations < threshold
                             /\ p.year # NullId
                             /\ current_year - p.year >= MinAgeYears))

\* _visibility_recommendations
visibility_recommendations(ps, cs) ==
    LET low_vis_papers == identify_low_visibility_papers(ps, cs, LowVisThreshold)
        no_doi == SelectSeq(papers_with_latest_citations(ps, cs), LAMBDA p : ~truthy(p.doi))
    IN (IF low_vis_papers # <<>>
        THEN <<recommendation("visibility", "high", "Promote under-cited paper")>>
        ELSE <<>>)
       \o
       (IF no_doi # <<>>
        THEN <<recommendation("visibility", "medium", "Add DOIs to papers")>>
        ELSE <<>>)

\* json.loads of the stored authors text.
json_loads(j) == j.text

MaxSoloAuthors == 2
SoloRatioNum   == 3
SoloRatioDen   == 10

\* The papers with a non-empty authors column of at most two authors.
solo_papers(listing) ==
    SelectSeq(listing, LAMBDA p : /\ ~p.authors.null
                                  /\ Len(json_loads(p.authors)) <= MaxSoloAuthors)

\* The rule with `>=` in place of `>`: it fires at exactly 30%, and on an
\* empty store.
collaboration_recommendations_at_least(ps, cs) ==
    LET listing == papers_with_latest_citations(ps, cs)
    IN IF Len(solo_papers(listing)) * SoloRatioDen >= Len(listing) * SoloRatioNum
       THEN <<recommendation("collaboration", "high", "Increase collaboration")>>
       ELSE <<>>

\* _collaboration_recommendations; len(solo_papers) > len(papers) * 0.3
collaboration_recommendations(ps, cs) ==
    LET listing == papers_with_latest_citations(ps, cs)
    IN IF Len(solo_papers(listing)) * SoloRatioDen > Len(listing) * SoloRatioNum
       THEN <<recommendation("collaboration", "high", "Increase collaboration")>>
       ELSE <<>>

\* _trending_recommendations
trending_recommendations ==
    <<recommendation("trending", "medium", "Align with current trends")>>

\* _profile_recommendations, for an open connection
profile_recommendations(cfg, ss) ==
    LET inactive_platforms == SelectSeq(cfg.platforms, LAMBDA pl : ~pl.enabled)
    IN (IF inactive_platforms # <<>>
        THEN <<recommendation("profile", "medium", "Activate more platforms")>>
        ELSE <<>>)
       \o
       (IF ss # <<>>
        THEN <<recommendation("profile", "low", "Regular updates")>>
        ELSE <<>>)

\* _priority_score
priority_score(r) ==
    CASE r.priority = "high"   -> 3
      [] r.priority = "medium" -> 2
      [] r.priority = "low"    -> 1
      [] OTHER                 -> 0

\* list.sort(key, reverse=True) is stable: equal keys keep their order.
RECURSIVE sort_by_score(_, _)
sort_by_score(recs, descending) ==
    IF recs = <<>> THEN <<>>
    ELSE LET scores == {priority_score(recs[i]) : i \in 1..Len(recs)}
             m == IF descending THEN SetMax(scores)
                  ELSE CHOOSE x \in scores : \A y \in scores : x <= y
             k == CHOOSE i \in 1..Len(recs) :
                      /\ priority_score(recs[i]) = m
                      /\ \A j \in 1..(i - 1) : priority_score(recs[j]) # m
         IN <<recs[k]>> \o
            sort_by_score(SubSeq(recs, 1, k - 1) \o SubSeq(recs, k + 1, Len(recs)), descending)

Reverse(s) == [i \in 1..Len(s) |-> s[Len(s) + 1 - i]]

\* An ascending sort turned around afterwards (sorted(...)[::-1]): highest
\* priority first, but entries of equal priority in reverse emission order.
sort_by_priority_then_reversed(recs) == Reverse(sort_by_score(recs, FALSE))

\* Sorting without reverse=True: lowest priority first.
sort_by_priority_ascending(recs) == sort_by_score(recs, FALSE)

\* recommendations.sort(key=lambda x: self._priority_score(x), reverse=True)
sort_by_priority(recs) == sort_by_score(recs, TRUE)

\* recommendations[:limit], for limit >= 0
truncate(recs, limit) == SubSeq(recs, 1, IF limit < Len(recs) THEN limit ELSE Len(recs))

\* `not category or category == name`
runs_category(category, name) == ~truthy(category) \/ category = name

\* Whether the connection is open when _profile_recommendations reads
\* self.db.conn: the visibility and collaboration rules go through
\* get_papers_with_latest_citations, which connects; nothing else does.
conn_open_at_profile(d, category) ==
    \/ conn[d]
    \/ runs_category(category, "visibility")
    \/ runs_category(category, "collaboration")

\* self.db.conn.execute(...) on conn = None raises AttributeError.
generate_raises(d, category) ==
    runs_category(category, "profile") /\ ~conn_open_at_profile(d, category)

\* The local list `recommendations` before it is sorted: what the rule
\* groups that ran appended, in the order of the four `if` statements.
emitted(category) ==
    (IF runs_category(category, "visibility")
     THEN visibility_recommendations(papers, citations) ELSE <<>>)
    \o (IF runs_category(category, "collaboration")
        THEN collaboration_recommendations(papers, citations) ELSE <<>>)
    \o (IF runs_category(category, "trending")
        THEN trending_recommendations ELSE <<>>)
    \o (IF runs_category(category, "profile")
        THEN profile_recommendations(config, sync_status) ELSE <<>>)

\* The list generate_recommendations returns when it does not raise: the
\* emitted list, sorted and cut.
generated(recs, limit) == truncate(sort_by_priority(recs), limit)

generate_recommendations(d, limit, category) ==
    LET connects == \/ runs_category(category, "visibility")
                    \/ runs_category(category, "collaboration")
        raised == generate_raises(d, category)
        recs   == IF raised THEN <<>> ELSE emitted(category)
    IN /\ conn' = IF connects THEN connect_conn(d) ELSE conn
       /\ last_insert_rowid' = IF connects THEN connect_last(d) ELSE last_insert_rowid
       /\ ret' = [call |-> "generate_recommendations", db |-> d, limit |-> limit,
                  category |-> category, raised |-> raised,
                  emitted |-> recs,
                  result |-> IF raised THEN <<>> ELSE generated(recs, limit)]
       /\ UNCHANGED storeVars

(***************************************************************************)
(* The engine over a store that is being filled                            *)
(***************************************************************************)
\* Bound on the rows written in one behaviour, and the largest limit asked for.
MaxRecRows == 3
MaxLimit   == 2

rec_rows_written == Len(papers) + Len(citations) + sync_seq

RecDois       == {NULL, "d1"}
RecAuthors    == {<<"u">>, <<"u", "v", "w">>}
RecYear       == current_year - 6
RecCount      == LowVisThreshold + 1
RecCategories == {NULL, "visibility", "collaboration", "trending", "profile", "other"}
\* limit 0, limit 1 and the largest limit
RecLimits     == {0, 1, MaxLimit}

\* The configuration as initialized, and the one with every platform enabled.
RecConfigs ==
    {[loaded |-> TRUE,
      platforms |-> [i \in 1..Len(InitPlatformNames) |->
                        platform_config(InitPlatformNames[i],
                                        all \/ init_enabled(InitPlatformNames[i]))]] :
        all \in BOOLEAN}

RecInit ==
    /\ EmptyStore
    /\ IdleRace
    /\ config \in RecConfigs
    /\ FileAsInitialized
    /\ IdleFetch

RecAddPaper ==
    /\ rec_rows_written < MaxRecRows
    /\ \E doi \in RecDois, authors \in RecAuthors :
           add_paper(1, TitleA, doi, NULL, RecYear, authors)
    /\ UNCHANGED <<raceVars, config, fileVars, now, fetchVars>>

RecAddCitationRecord ==
    /\ rec_rows_written < MaxRecRows
    /\ \E paper_id \in 1..Len(papers) : add_citation_record(1, paper_id, "X", RecCount)
    /\ UNCHANGED <<raceVars, config, fileVars, now, fetchVars>>

RecUpdateSyncStatus ==
    /\ rec_rows_written < MaxRecRows
    /\ update_sync_status(1, "X", "success", NULL)
    /\ UNCHANGED <<raceVars, config, fileVars, now, fetchVars>>

RecClose ==
    /\ close(1)
    /\ UNCHANGED <<raceVars, config, fileVars, now, fetchVars>>

RecGenerate ==
    /\ \E limit \in RecLimits, category \in RecCategories :
           generate_recommendations(1, limit, category)
    /\ UNCHANGED <<raceVars, config, fileVars, now, fetchVars>>

RecNext ==
    \/ RecAddPaper
    \/ RecAddCitationRecord
    \/ RecUpdateSyncStatus
    \/ RecClose
    \/ RecGenerate

RecSpec == RecInit /\ [][RecNext]_vars

\* C10: for every limit >= 0 and every category, generate_recommendations
\* returns at most limit entries, and their priorities are non-increasing:
\* no medium entry precedes a high one, no low entry a medium or high one.
C10_AtMostLimitAndRanked ==
    (ret.call = "generate_recommendations" /\ ~ret.raised) =>
        /\ Len(ret.result) <= ret.limit
        /\ \A i, j \in 1..Len(ret.result) :
               i < j =>
                   /\ ~(ret.result[i].priority = "medium" /\ ret.result[j].priority = "high")
                   /\ ~(ret.result[i].priority = "low"
                        /\ ret.result[j].priority \in {"medium", "high"})
                   /\ ret.result[i].priority \in {"high", "medium", "low"}

\* C10 witness: all rule groups ran with limit 2 and the list was cut to the
\* two high entries; the collaboration entry moved ahead of the medium
\* visibility entry emitted before it.
C10_Witness ==
    /\ ret.call = "generate_recommendations"
    /\ ~ret.raised
    /\ ret.category = NULL
    /\ ret.limit = 2
    /\ Len(ret.result) = 2
    /\ ret.result[1].category = "visibility" /\ ret.result[1].priority = "high"
    /\ ret.result[2].category = "collaboration" /\ ret.result[2].priority = "high"
    /\ \E i \in 1..Len(papers) : papers[i].doi = NULL
    /\ sync_status # <<>>

(***************************************************************************)
(* The collaboration rule over stores of papers with and without authors   *)
(***************************************************************************)
MaxCollabPapers == 4

\* --top defaults to 5.
DefaultTop == 5

\* authors as passed to add_paper: omitted, or a list of one to three names.
CollabAuthors    == {NoAuthors, <<"u">>, <<"u", "v">>, <<"u", "v", "w">>}
CollabLimits     == {1, DefaultTop}
CollabCategories == {NULL, "collaboration"}

CollabAddPaper ==
    /\ Len(papers) < MaxCollabPapers
    /\ \E authors \in CollabAuthors : add_paper(1, TitleA, NULL, NULL, NullId, authors)
    /\ UNCHANGED <<raceVars, config, fileVars, now, fetchVars>>

CollabGenerate ==
    /\ \E limit \in CollabLimits, category \in CollabCategories :
           generate_recommendations(1, limit, category)
    /\ UNCHANGED <<raceVars, config, fileVars, now, fetchVars>>

CollabNext ==
    \/ CollabAddPaper
    \/ CollabGenerate

CollabSpec == Init /\ [][CollabNext]_vars

\* The paper rows that carry an author list of at most two names.
short_author_lists(ps) ==
    {i \in 1..Len(ps) : ~ps[i].authors.null /\ Len(ps[i].authors.text) <= 2}

collaboration_entries(recs) ==
    {k \in 1..Len(recs) : recs[k].category = "collaboration"}

\* C11: the collaboration rule emits exactly one recommendation, of high
\* priority, if and only if 10 * S > 3 * N, where N is the number of paper
\* rows and S the number of papers whose author list has at most two names;
\* otherwise it emits nothing.  (A paper stored without an author list is
\* part of N only.)
C11_CollaborationRule ==
    (/\ ret.call = "generate_recommendations"
     /\ ~ret.raised
     /\ runs_category(ret.category, "collaboration")) =>
        LET S     == Cardinality(short_author_lists(papers))
            N     == Len(papers)
            fired == collaboration_entries(ret.emitted)
        IN /\ IF 10 * S > 3 * N
              THEN /\ Cardinality(fired) = 1
                   /\ \A k \in fired : ret.emitted[k].priority = "high"
              ELSE fired = {}
           /\ ret.category = "collaboration" => ret.result = ret.emitted

\* C11 witness: three papers, two of them with an author list of length 1 and
\* one without an author list; the rule fired.
C11_Witness ==
    /\ ret.call = "generate_recommendations"
    /\ ret.category = "collaboration"
    /\ Len(papers) = 3
    /\ Cardinality({i \in 1..3 : ~papers[i].authors.null
                                 /\ Len(papers[i].authors.text) = 1}) = 2
    /\ Cardinality({i \in 1..3 : papers[i].authors.null}) = 1
    /\ Len(ret.result) = 1
    /\ ret.result[1].category = "collaboration"
    /\ ret.result[1].priority = "high"

(***************************************************************************)
(* Papers without identifiers                                              *)
(***************************************************************************)
\* C12: add_paper called with neither a DOI nor an arXiv ID and with a title
\* identical to the title of an existing paper adds no paper row.
C12_SameTitleIsNoOp ==
    [][(/\ ret'.call = "add_paper"
        /\ ret'.doi = NULL
        /\ ret'.arxiv_id = NULL
        /\ \E i \in 1..Len(papers) : papers[i].title = ret'.title)
       => papers' = papers]_vars

(***************************************************************************)
(* Tracking a paper that is not in the store                               *)
(***************************************************************************)
\* None of the identifiers given (a DOI, an arXiv ID, a title fragment)
\* matches a paper row; holds too when no identifier is given.
matches_no_paper(ps, doi, arxiv_id, title) ==
    \A i \in 1..Len(ps) :
        /\ truthy(doi) => ps[i].doi # doi
        /\ truthy(arxiv_id) => ps[i].arxiv_id # arxiv_id
        /\ title # NoTitle => ~title_like(ps[i].title, title)

\* C16: add_tracked_paper called with identifiers that match no paper, or
\* with no identifier at all, returns None and leaves the papers, citations
\* and tracked_papers tables unchanged.
C16_TrackUnknownReturnsNone ==
    [][(/\ ret'.call = "add_tracked_paper"
        /\ matches_no_paper(papers, ret'.doi, ret'.arxiv_id, ret'.title))
       => /\ ret'.result = NullId
          /\ papers' = papers
          /\ citations' = citations
          /\ tracked_papers' = tracked_papers]_vars

\* C16 witness: the store holds a paper that is tracked by its DOI; a call
\* with an arXiv ID and a title that no paper has returned None and the
\* tracked set still holds the one row.
C16_Witness ==
    /\ ret.call = "add_tracked_paper"
    /\ ret.doi = NULL
    /\ ret.arxiv_id = "a1"
    /\ ret.title = TitleAB
    /\ ret.result = NullId
    /\ Len(papers) = 1
    /\ papers[1].arxiv_id # "a1"
    /\ tracked_papers = <<tracked_row(1, 1)>>

(***************************************************************************)
(* Reported counts over time                                               *)
(***************************************************************************)
\* Histories of the six writing operations, without reads in between.
MaxHistoryRows == 3

HistoryAddPaper ==
    /\ rows_written < MaxHistoryRows
    /\ \E doi \in StoreDois : add_paper(1, TitleA, doi, NULL, NullId, NoAuthors)
    /\ UNCHANGED <<raceVars, config, fileVars, now, fetchVars>>

HistoryAddCitationRecord ==
    /\ rows_written < MaxHistoryRows
    /\ \E paper_id \in StorePaperIds, platform \in StorePlatforms, n \in StoreCounts :
           add_citation_record(1, paper_id, platform, n)
    /\ UNCHANGED <<raceVars, config, fileVars, now, fetchVars>>

HistoryAddTrackedPaper ==
    /\ rows_written < MaxHistoryRows
    /\ \E doi \in StoreDois, title \in {NoTitle, TitleA} :
           add_tracked_paper(1, doi, NULL, title)
    /\ UNCHANGED <<raceVars, config, fileVars, now, fetchVars>>

HistoryUpdateSyncStatus ==
    /\ rows_written < MaxHistoryRows
    /\ \E o \in SyncOutcomes : update_sync_status(1, "X", o[1], o[2])
    /\ UNCHANGED <<raceVars, config, fileVars, now, fetchVars>>

HistoryAddRecommendation ==
    /\ rows_written < MaxHistoryRows
    /\ add_recommendation(1, "visibility", "t", "d", "high")
    /\ UNCHANGED <<raceVars, config, fileVars, now, fetchVars>>

HistoryAddAlert ==
    /\ rows_written < MaxHistoryRows
    /\ add_alert(1, 1, "t", "m")
    /\ UNCHANGED <<raceVars, config, fileVars, now, fetchVars>>

HistoryNext ==
    \/ HistoryAddPaper
    \/ HistoryAddCitationRecord
    \/ HistoryAddTrackedPaper
    \/ HistoryUpdateSyncStatus
    \/ HistoryAddRecommendation
    \/ HistoryAddAlert

HistorySpec == Init /\ [][HistoryNext]_vars

\* The citations value a listing reports for the paper with the given id.
reported_citations(listing, id) ==
    listing[CHOOSE k \in 1..Len(listing) : listing[k].id = id].citations

\* C17: over any sequence of Database operations, the citations value that
\* get_papers_with_latest_citations reports for a paper never decreases, and
\* get_total_citations() never decreases, also when an observation with a
\* lower count than an earlier one is recorded.
C17_ReportedCountsNeverDecrease ==
    [][LET before == papers_with_latest_citations(papers, citations)
           after  == papers_with_latest_citations(papers', citations')
       IN /\ \A i \in 1..Len(papers) :
                 reported_citations(after, papers[i].id)
                     >= reported_citations(before, papers[i].id)
          /\ total_citations(citations', NULL) >= total_citations(citations, NULL)]_vars

\* C17 witness: a paper in the store was observed with 10 citations and then
\* with 3; the listing and the total both still report 10.
C17_Witness ==
    /\ ret.call = "add_citation_record"
    /\ ret.citation_count = 3
    /\ \E i \in 1..Len(papers) :
           /\ papers[i].id = ret.paper_id
           /\ \E j \in 1..(Len(citations) - 1) :
                  /\ citations[j].paper_id = ret.paper_id
                  /\ citations[j].citation_count = 10
           /\ reported_citations(papers_with_latest_citations(papers, citations),
                                 papers[i].id) = 10
    /\ total_citations(citations, NULL) = 10

(***************************************************************************)
(* Lazy connection                                                         *)
(***************************************************************************)
\* C20: generate_recommendations completes without error for category unset
\* and for each of 'visibility', 'collaboration', 'trending' and 'profile',
\* whether or not the Database's connection is open when it is called.
C20_GenerateOpensConnection ==
    (/\ ret.call = "generate_recommendations"
     /\ ret.category \in {NULL, "visibility", "collaboration", "trending", "profile"})
        => ~ret.raised

(***************************************************************************)
(* Order of the recommendations                                            *)
(***************************************************************************)
\* The fixed order of the rule groups.
group_rank(category) ==
    CASE category = "visibility"    -> 1
      [] category = "collaboration" -> 2
      [] category = "trending"      -> 3
      [] category = "profile"       -> 4

\* Where an entry stands in the list (the entries of one call are distinct).
position(recs, r) == CHOOSE k \in 1..Len(recs) : recs[k] = r

\* C15: in the list generate_recommendations returns, entries of equal
\* priority keep their emission order (rule groups in the order visibility,
\* collaboration, trending, profile; within a group the order of emission),
\* and truncation keeps a prefix of that order: an entry is dropped only if
\* every entry kept has a priority at least as high, and was emitted earlier
\* when the priorities are equal.
C15_TiesKeepEmissionOrder ==
    (ret.call = "generate_recommendations" /\ ~ret.raised) =>
        LET r == ret.result
            e == ret.emitted
            dropped == {m \in 1..Len(e) : \A k \in 1..Len(r) : r[k] # e[m]}
        IN /\ \A m, n \in 1..Len(e) :
                  m < n => group_rank(e[m].category) <= group_rank(e[n].category)
           /\ \A k \in 1..Len(r) : \E m \in 1..Len(e) : e[m] = r[k]
           /\ Len(r) = IF ret.limit < Len(e) THEN ret.limit ELSE Len(e)
           /\ \A i, j \in 1..Len(r) :
                  (i < j /\ r[i].priority = r[j].priority)
                      => position(e, r[i]) < position(e, r[j])
           /\ \A m \in dropped : \A k \in 1..Len(r) :
                  \/ priority_score(r[k]) > priority_score(e[m])
                  \/ /\ r[k].priority = e[m].priority
                     /\ position(e, r[k]) < m

\* C15 witness: three medium entries were emitted (visibility, trending,
\* profile) and limit 2 kept the first two in that order.
C15_Witness ==
    /\ ret.call = "generate_recommendations"
    /\ ~ret.raised
    /\ ret.limit = 2
    /\ Len(ret.emitted) = 3
    /\ \A m \in 1..3 : ret.emitted[m].priority = "medium"
    /\ Len(ret.result) = 2
    /\ ret.result[1].category = "visibility"
    /\ ret.result[2].category = "trending"
    /\ ret.emitted[3].category = "profile"

(***************************************************************************)
(* RecommendationEngine.get_actionable_insights                            *)
(***************************************************************************)
\* MetricsCalculator.calculate_h_index(citations): the largest h such that at
\* least h of the counts are >= h.  (src/analytics/metrics.py is not part of
\* the sources; this follows the specification, section 4.3 and glossary.)
calculate_h_index(counts) ==
    SetMax({h \in 0..Len(counts) :
               Cardinality({i \in 1..Len(counts) : counts[i] >= h}) >= h})

\* The count of every observation row, in place of one count per paper.
citation_counts_all_observations(ps, cs) ==
    [i \in 1..Len(cs) |-> cs[i].citation_count]

\* [p['citations'] for p in papers]
citation_counts(ps, cs) ==
    LET listing == papers_with_latest_citations(ps, cs)
    IN [i \in 1..Len(listing) |-> listing[i].citations]

\* max(papers, key=lambda x: x['citations'])['title'] if papers else None:
\* max returns the first of the entries with the largest key.  None is
\* NoTitle here; the titles in use are not empty.
top_paper(listing) ==
    IF listing = <<>> THEN NoTitle
    ELSE LET m == SetMax({listing[i].citations : i \in 1..Len(listing)})
         IN listing[CHOOSE i \in 1..Len(listing) :
                        /\ listing[i].citations = m
                        /\ \A j \in 1..(i - 1) : listing[j].citations # m].title

\* sum(...) / len(papers) if papers else 0: the quotient is kept as the
\* fraction num/den, the integer 0 as 0/1.
avg_citations(listing) ==
    IF listing = <<>> THEN [num |-> 0, den |-> 1]
    ELSE [num |-> SumSeq([i \in 1..Len(listing) |-> listing[i].citations]),
          den |-> Len(listing)]

insights(ps, cs) ==
    LET listing == papers_with_latest_citations(ps, cs)
    IN [total_papers |-> Len(listing),
        total_citations |-> SumSeq([i \in 1..Len(listing) |-> listing[i].citations]),
        h_index |-> calculate_h_index(citation_counts(ps, cs)),
        top_paper |-> top_paper(listing),
        avg_citations |-> avg_citations(listing),
        low_visibility_count |->
            Len(identify_low_visibility_papers(ps, cs, LowVisThreshold))]

get_actionable_insights(d) ==
    /\ conn' = connect_conn(d)
    /\ last_insert_rowid' = connect_last(d)
    /\ ret' = [call |-> "get_actionable_insights", db |-> d,
               result |-> insights(papers, citations)]
    /\ UNCHANGED storeVars

MaxInsightPapers       == 3
MaxInsightObservations == 3

InsightTitles == {TitleA}
InsightCounts == {0, 5, 10, 20}

InsightAddPaper ==
    /\ Len(papers) < MaxInsightPapers
    /\ \E title \in InsightTitles : add_paper(1, title, NULL, NULL, NullId, NoAuthors)
    /\ UNCHANGED <<raceVars, config, fileVars, now, fetchVars>>

InsightAddCitationRecord ==
    /\ Len(citations) < MaxInsightObservations
    /\ \E paper_id \in 1..Len(papers), n \in InsightCounts :
           add_citation_record(1, paper_id, "X", n)
    /\ UNCHANGED <<raceVars, config, fileVars, now, fetchVars>>

InsightGet ==
    /\ get_actionable_insights(1)
    /\ UNCHANGED <<raceVars, config, fileVars, now, fetchVars>>

InsightNext ==
    \/ InsightAddPaper
    \/ InsightAddCitationRecord
    \/ InsightGet

InsightSpec == Init /\ [][InsightNext]_vars

\* The paper rows with an observation of at least h citations.
papers_cited_at_least(ps, cs, h) ==
    {i \in 1..Len(ps) :
        \E j \in 1..Len(cs) : cs[j].paper_id = ps[i].id /\ cs[j].citation_count >= h}

\* At least h papers have a current count (maximum observed) of at least h.
enough_papers(ps, cs, h) ==
    h = 0 \/ Cardinality(papers_cited_at_least(ps, cs, h)) >= h

\* C13: get_actionable_insights reports h_index as the largest h such that at
\* least h papers have a current citation count (the per-paper maximum over
\* all observations) of at least h; it is 0 for an empty store and for a
\* store where every count is 0; top_paper is None and avg_citations is 0
\* for an empty store.
C13_InsightsHIndex ==
    ret.call = "get_actionable_insights" =>
        LET h == ret.result.h_index
        IN /\ h \in 0..Len(papers)
           /\ enough_papers(papers, citations, h)
           /\ \A k \in (h + 1)..Len(papers) : ~enough_papers(papers, citations, k)
           /\ (\A j \in 1..Len(citations) : citations[j].citation_count = 0) => h = 0
           /\ papers = <<>> =>
                  /\ h = 0
                  /\ ret.result.top_paper = NoTitle
                  /\ ret.result.avg_citations = [num |-> 0, den |-> 1]

\* C13 witness: three papers with current counts 20, 10 and 5; the insights
\* report total_citations 35 and h_index 3.
C13_Witness ==
    /\ ret.call = "get_actionable_insights"
    /\ Len(papers) = 3
    /\ {coalesce_max(citations, papers[i].id) : i \in 1..3} = {20, 10, 5}
    /\ ret.result.total_citations = 35
    /\ ret.result.h_index = 3
    /\ ret.result.total_papers = 3

(***************************************************************************)
(* Storing fetched results: add_paper, then observations for its result    *)
(***************************************************************************)
\* A caller stores what a platform reported as
\*     paper_id = db.add_paper(...); db.add_citation_record(paper_id, ...)
\* so every paper_id handed to add_citation_record is a value add_paper
\* returned.
MaxIngestRows == 5

IngestDois     == {NULL, "d1"}
IngestArxivIds == {NULL, "a1"}

ingest_rows_written == papers_seq + Len(citations) + Len(tracked_papers)

IngestAddPaper ==
    /\ ingest_rows_written < MaxIngestRows
    /\ \E doi \in IngestDois, arxiv_id \in IngestArxivIds :
           add_paper(1, TitleA, doi, arxiv_id, NullId, NoAuthors)
    /\ UNCHANGED <<raceVars, config, fileVars, now, fetchVars>>

\* An observation for the paper add_paper has just returned, or a further
\* one (another platform) for the same paper_id.
IngestAddCitationRecord ==
    /\ ingest_rows_written < MaxIngestRows
    /\ ret.call \in {"add_paper", "add_citation_record"}
    /\ \E platform \in StorePlatforms, n \in StoreCounts :
           add_citation_record(1, IF ret.call = "add_paper" THEN ret.result ELSE ret.paper_id,
                               platform, n)
    /\ UNCHANGED <<raceVars, config, fileVars, now, fetchVars>>

IngestAddTrackedPaper ==
    /\ ingest_rows_written < MaxIngestRows
    /\ \E doi \in IngestDois, arxiv_id \in IngestArxivIds :
           add_tracked_paper(1, doi, arxiv_id, NoTitle)
    /\ UNCHANGED <<raceVars, config, fileVars, now, fetchVars>>

IngestClose ==
    /\ close(1)
    /\ UNCHANGED <<raceVars, config, fileVars, now, fetchVars>>

IngestNext ==
    \/ IngestAddPaper
    \/ IngestAddCitationRecord
    \/ IngestAddTrackedPaper
    \/ IngestClose

IngestSpec == Init /\ [][IngestNext]_vars

\* C18: in every reachable store state the total_citations of
\* get_actionable_insights (the sum of the citations field over
\* get_papers_with_latest_citations) equals get_total_citations() without a
\* platform filter.
C18_AggregationPathsAgree ==
    insights(papers, citations).total_citations = total_citations(citations, NULL)

paper_ids(ps) == {ps[i].id : i \in 1..Len(ps)}

\* C19: the paper_id of every row in citations and of every row in
\* tracked_papers is the identifier of an existing paper row.
C19_ReferentialIntegrity ==
    /\ \A i \in 1..Len(citations) : citations[i].paper_id \in paper_ids(papers)
    /\ \A i \in 1..Len(tracked_papers) : tracked_papers[i].paper_id \in paper_ids(papers)

(***************************************************************************)
(* Config.load, Config.save and `elephant alert`                           *)
(***************************************************************************)
\* Config.load: the sections of the file, with api_key of every platform
\* whose <PLATFORM>_API_KEY variable is set replaced by the variable's value.
\* (ORCID_CLIENT_ID / ORCID_CLIENT_SECRET are injected the same way and are
\* left out.)
load(file, env) ==
    [loaded |-> TRUE,
     user |-> file.user,
     platforms |-> [i \in 1..Len(file.platforms) |->
                       IF env[file.platforms[i].name] # NULL
                       THEN [file.platforms[i] EXCEPT !.api_key = env[file.platforms[i].name]]
                       ELSE file.platforms[i]],
     database |-> file.database,
     tracking |-> file.tracking,
     alerts |-> file.alerts,
     recommendations |-> file.recommendations]

\* main(): Config.load when the file exists, None otherwise.
main_config(file, env) == IF file.exists THEN load(file, env) ELSE [loaded |-> FALSE]

\* Config.save: yaml.dump(self.model_dump()) writes every field of the object.
save(cfg) ==
    [exists |-> TRUE, user |-> cfg.user, platforms |-> cfg.platforms,
     database |-> cfg.database, tracking |-> cfg.tracking, alerts |-> cfg.alerts,
     recommendations |-> cfg.recommendations]

\* --enable/--disable is one boolean option with default=True.
enable_option(flag) == flag # "--disable"

\* config.alerts.enabled = enable; the threshold only when one was given.
alert_settings(section, enable, threshold) ==
    [section EXCEPT !.enabled = enable,
                   !.min_citation_threshold = IF threshold # NullId THEN threshold ELSE @]

\* `elephant alert [--enable | --disable] [--threshold N]`: main() and then
\* alert_command.
alert(flag, threshold) ==
    LET loaded  == main_config(config_file, environ)
        changed == [loaded EXCEPT !.alerts = alert_settings(loaded.alerts,
                                                            enable_option(flag), threshold)]
    IN /\ IF loaded.loaded
          THEN config' = changed /\ config_file' = save(changed)
          ELSE config' = loaded /\ config_file' = config_file
       /\ ret' = [call |-> "alert", flag |-> flag, threshold |-> threshold]
       /\ UNCHANGED <<storeVars, connVars, environ>>

AlertFlags      == {"absent", "--enable", "--disable"}
AlertThresholds == {NullId, 0, 5}
AlertApiKeys    == {NULL, "k1"}

\* Files a user can have: as written by `elephant init`, then edited.
AlertFiles ==
    {config_data(file_platforms(k, en), alerts_config(al, FALSE, 1)) :
        k \in AlertApiKeys, en \in BOOLEAN, al \in BOOLEAN}

AlertEnvirons == {[NoEnviron EXCEPT !["arxiv"] = k] : k \in {NULL, "k2"}}

AlertInit ==
    /\ EmptyStore
    /\ IdleRace
    /\ config = [loaded |-> FALSE]
    /\ config_file \in AlertFiles \cup {NoFile}
    /\ environ \in AlertEnvirons
    /\ IdleFetch

AlertRun ==
    /\ \E flag \in AlertFlags, threshold \in AlertThresholds : alert(flag, threshold)
    /\ UNCHANGED <<raceVars, now, fetchVars>>

\* The user sets or unsets ARXIV_API_KEY in ~/.elephant/.env.
AlertSetEnviron ==
    /\ \E env \in AlertEnvirons : environ' = env /\ env # environ
    /\ UNCHANGED <<storeVars, connVars, ret, raceVars, config, config_file, now, fetchVars>>

AlertNext ==
    \/ AlertRun
    \/ AlertSetEnviron

AlertSpec == AlertInit /\ [][AlertNext]_vars

\* C14: the only change alert_command makes to the persisted configuration
\* is the alert threshold: after Config.load and alert_command, every other
\* field of the saved file (platform settings and credentials, user,
\* database, tracking, recommendations, and the alerts enabled flag when only
\* a threshold was passed) has the value it had in the file before.
C14_OnlyThresholdChanges ==
    [][(ret'.call = "alert" /\ config_file.exists) =>
          /\ config_file'.user = config_file.user
          /\ config_file'.platforms = config_file.platforms
          /\ config_file'.database = config_file.database
          /\ config_file'.tracking = config_file.tracking
          /\ config_file'.recommendations = config_file.recommendations
          /\ config_file'.alerts.email_notifications = config_file.alerts.email_notifications
          /\ (ret'.flag = "absent" /\ ret'.threshold # NullId)
                 => config_file'.alerts.enabled = config_file.alerts.enabled]_vars

====
